---- MODULE Spec2Model ----
(***************************************************************************)
(* Model of Media::Stories::ReplyArea                                      *)
(* (Telegram/SourceFiles/media/stories/media_stories_reply.cpp).           *)
(*                                                                         *)
(* The state is the reply state _data (user, story id), the flag           *)
(* _choosingAttach, the text and the history of the compose controls, the  *)
(* delayed chooseAttach calls, the open file dialogs and the open          *)
(* send-confirmation boxes.  Every handler is one action; the calls it     *)
(* makes on its collaborators (session API, ui show, compose controls) are *)
(* recorded, in order, in op.fx.                                           *)
(***************************************************************************)
EXTENDS Integers, Sequences, FiniteSets

VARIABLES
    data,            \* _data: [user, id]
    choosingAttach,  \* _choosingAttach
    text,            \* text of the compose controls' input field
    history,         \* history configured by _controls->setHistory
    delayed,         \* pending base::call_delayed chooseAttach calls
    dialogs,         \* open file dialogs (FileDialog::GetOpenPaths): whether
                     \* the guard of the callback is valid, and whether
                     \* show() changed the user since the dialog opened
    boxes,           \* open SendFilesBox boxes: the list each one holds
    opened,          \* history variable: the story that was shown when
                     \* the dialog or box opened last (the last one of its
                     \* sequence) was opened, as long as the user has not
                     \* changed since; kept by SpecOpened only
    crashed,         \* an Expects() failed: the process has terminated
    op               \* the last handler run: its name, inputs and calls

vars == <<data, choosingAttach, text, history, delayed, dialogs, boxes,
          opened, crashed, op>>

----------------------------------------------------------------------------
\* Bounds of the model.

MaxStory == 2
MaxDelayed == 2
MaxDialogs == 2
MaxBoxes == 1
MaxGroups == 2

----------------------------------------------------------------------------
\* Values.

NoUser == "nullptr"
Users == {"u1", "u2"}
StoryIds == 0 .. MaxStory - 1
ReplyAreaData == [user : Users \cup {NoUser}, id : StoryIds]
Texts == {"", "a"}
\* Results of the restriction checks: "" stands for no error.
ErrorTexts == {"", "restricted"}
\* std::optional<bool> overrideSendImagesAsPhotos
Overrides == {"nullopt", "true", "false"}
\* Api::SendOptions: the handlers copy the options into the send action and
\* branch on nothing in them (send passes options.scheduled to
\* GetErrorTextForSending, whose result is an input of its own).
SendOptions == {"options"}
DefaultOptions == "{}"
\* Ui::SendFilesWay: the value of way.sendImagesAsPhotos().  It only selects
\* the SendMediaType handed on to sendFiles (and the compress argument of the
\* restriction check, whose result is an input of its own).
SendFilesWays == {TRUE}
\* Ui::PreparedList::Error
ListErrors == {"None", "EmptyFile", "Directory", "NonLocalUrl",
               "TooLargeFile"}
\* What a file dialog returns: nothing, remote content that reads as a still
\* image, other remote content, or local paths.
OpenResults == {"empty", "remoteImage", "remoteOther", "paths"}
\* Ui::PreparedGroup as DivideByGroups makes them: a single file (type None),
\* a photo/video album, or an album of files, which is the one kind that is
\* not sent with a caption.
AlbumTypes == {"None", "PhotoVideo", "File"}
Groups == { [type |-> "None", sentWithCaption |-> TRUE],
            [type |-> "PhotoVideo", sentWithCaption |-> TRUE],
            [type |-> "File", sentWithCaption |-> FALSE] }
MimeActions == {"Check", "Insert"}

Fx(call, a) == [call |-> call, a |-> a]

RemoveAt(s, i) == SubSeq(s, 1, i - 1) \o SubSeq(s, i + 1, Len(s))

\* One position for each distinct element of s: closing either of two equal
\* dialogs or boxes leads to the same state.
Distinct(s) == {i \in DOMAIN s : \A j \in 1 .. i - 1 : s[j] # s[i]}

\* Nothing is followed from its opening on.
NoneOpened == [what |-> "none", at |-> -1]

\* The story for which element i of the dialogs or boxes s was opened, when
\* that is the element followed; -1 otherwise.
OpenedAt(what, s, i) ==
    IF opened.what = what /\ i = Len(s) THEN opened.at ELSE -1

\* The element followed after element i of the dialogs or boxes s is closed.
OpenedAfter(what, s, i) ==
    IF opened.what = what /\ i = Len(s) THEN NoneOpened ELSE opened

----------------------------------------------------------------------------
\* Helpers of the handlers.

ControlsClear_Keep(t) == t

\* _controls->clear()
ControlsClear(t) == ""

FinishSending_Nothing == <<>>

\* ReplyArea::finishSending
FinishSending ==
    << Fx("hidePanelsAnimated", ""), Fx("setFocus", "wrap") >>

PrepareSendAction_FirstStory(d, options) ==
    [ history |-> d.user,
      replyTo |-> [peer |-> d.user, story |-> 0],
      options |-> options,
      clearDraft |-> TRUE ]

\* ReplyArea::prepareSendAction (called with _data.user # nullptr)
PrepareSendAction(d, options) ==
    [ history |-> d.user,
      replyTo |-> [peer |-> d.user, story |-> d.id],
      options |-> options,
      clearDraft |-> TRUE ]

InvalidateWeakPtrs_Keep(ds) == ds

\* invalidate_weak_ptrs(&_shownUserGuard): every callback guarded so far
\* is dropped.
InvalidateWeakPtrs(ds) ==
    [i \in DOMAIN ds |-> [ds[i] EXCEPT !.valid = FALSE]]

AttachFilter_Always(flag) == TRUE

\* the rpl::filter of attachRequests
AttachFilter(flag) == ~flag

ChooseAttachFlag_AfterCheck(user, err, flag) ==
    IF user = NoUser \/ err # "" THEN flag ELSE FALSE

\* _choosingAttach after chooseAttach ran
ChooseAttachFlag(user, err, flag) ==
    IF user = NoUser THEN flag ELSE FALSE

SendingFilesErrorText_ListFirst(restr, listError) ==
    CASE listError \in {"EmptyFile", "Directory", "NonLocalUrl"} ->
             "lng_send_image_empty"
      [] listError = "TooLargeFile" -> "(toolarge)"
      [] OTHER -> restr

\* ReplyArea::showSendingFilesError(list, compress): restr is the result of
\* Data::FileRestrictionError ("" when it returns nullopt), listError is
\* list.error.  The text it computes:
SendingFilesErrorText(restr, listError) ==
    IF restr # "" THEN restr
    ELSE CASE listError = "None" -> ""
           [] listError \in {"EmptyFile", "Directory", "NonLocalUrl"} ->
                  "lng_send_image_empty"
           [] listError = "TooLargeFile" -> "(toolarge)"
           [] OTHER -> "lng_forward_send_files_cant"

\* ... and what it returns and shows.
ShowSendingFilesError(restr, listError) ==
    LET t == SendingFilesErrorText(restr, listError)
    IN  IF t = "" THEN [ret |-> FALSE, fx |-> <<>>]
        ELSE IF t = "(toolarge)"
        THEN [ret |-> TRUE, fx |-> << Fx("showBox", "FileSizeLimitBox") >>]
        ELSE [ret |-> TRUE, fx |-> << Fx("showToast", t) >>]

\* ReplyArea::confirmSendingFiles(PreparedList): mediaEdit is the result of
\* _controls->confirmMediaEdit(list).  box tells whether a SendFilesBox is
\* shown; sfe records the call of showSendingFilesError, if any.
ConfirmSendingFiles(list, mediaEdit, restr) ==
    IF mediaEdit
    THEN [ret |-> TRUE, box |-> FALSE,
          fx |-> << Fx("confirmMediaEdit", "") >>,
          sfe |-> [called |-> FALSE]]
    ELSE LET e == ShowSendingFilesError(restr, list.error)
             call == [called |-> TRUE, restr |-> restr,
                      listError |-> list.error, ret |-> e.ret]
         IN  IF e.ret
             THEN [ret |-> FALSE, box |-> FALSE, fx |-> e.fx, sfe |-> call]
             ELSE [ret |-> TRUE, box |-> TRUE,
                   fx |-> << Fx("showBox", "SendFilesBox") >>,
                   sfe |-> call]

\* ReplyArea::uploadFile
UploadFile(d, type) ==
    << Fx("sendFile", [type |-> type,
                       action |-> PrepareSendAction(d, DefaultOptions)]) >>

\* The body of ReplyArea::send after the message is built: err is the
\* result of GetErrorTextForSending.
SendBody(err, message) ==
    (IF err # "" THEN << Fx("showToast", err) >> ELSE <<>>)
    \o << Fx("sendMessage", message) >>
    \o << Fx("clear", "") >>
    \o FinishSending

\* The sendFiles calls of the loop over the groups: the caption is taken by
\* the first call (base::take).
RECURSIVE SendGroups(_, _, _, _)
SendGroups(groups, type, caption, action) ==
    IF groups = <<>> THEN <<>>
    ELSE << Fx("sendFiles",
               [type |-> type, caption |-> caption,
                album |-> (Head(groups).type # "None"),
                action |-> action]) >>
         \o SendGroups(Tail(groups), type, "", action)

SendingFilesConfirmedBody_CaptionKept(d, groups, sendImagesAsPhotos, caption, options) ==
    LET type == IF sendImagesAsPhotos THEN "Photo" ELSE "File"
        action == [PrepareSendAction(d, options)
                      EXCEPT !.clearDraft = FALSE]
        separate == /\ (Len(groups) # 1 \/ ~groups[1].sentWithCaption)
                    /\ caption # ""
    IN  (IF separate
         THEN << Fx("sendMessage",
                    [action |-> action, textWithTags |-> caption]) >>
         ELSE <<>>)
        \o SendGroups(groups, type, caption, action)
        \o FinishSending

\* The body of ReplyArea::sendingFilesConfirmed after the error check.
SendingFilesConfirmedBody(d, groups, sendImagesAsPhotos, caption, options) ==
    LET type == IF sendImagesAsPhotos THEN "Photo" ELSE "File"
        action == [PrepareSendAction(d, options)
                      EXCEPT !.clearDraft = FALSE]
        separate == /\ (Len(groups) # 1 \/ ~groups[1].sentWithCaption)
                    /\ caption # ""
    IN  (IF separate
         THEN << Fx("sendMessage",
                    [action |-> action, textWithTags |-> caption]) >>
         ELSE <<>>)
        \o SendGroups(groups, type,
                      IF separate THEN "" ELSE caption, action)
        \o FinishSending

\* An Expects() fails: the process terminates inside the handler o, which
\* has made no call yet.
Crash(o) ==
    /\ crashed' = TRUE
    /\ op' = o

----------------------------------------------------------------------------
Init ==
    /\ data = [user |-> NoUser, id |-> 0]
    /\ choosingAttach = FALSE
    /\ text = ""
    /\ history = NoUser
    /\ delayed = <<>>
    /\ dialogs = <<>>
    /\ boxes = <<>>
    /\ opened = NoneOpened
    /\ crashed = FALSE
    /\ op = [name |-> "init", fx |-> <<>>]

\* ReplyArea::show
Show(d) ==
    /\ ~crashed
    /\ op' = [name |-> "show", old |-> data, arg |-> d,
              fx |-> IF data = d THEN <<>>
                     ELSE IF data.user = d.user
                     THEN (IF d.user # NoUser
                           THEN << Fx("clear", "") >> ELSE <<>>)
                     ELSE << Fx("invalidate_weak_ptrs", ""),
                             Fx("setHistory", d.user),
                             Fx("clear", "") >>]
    /\ IF data = d
       THEN UNCHANGED <<data, text, history, dialogs, opened>>
       ELSE /\ data' = d
            /\ IF data.user = d.user
               THEN /\ text' = IF d.user # NoUser
                               THEN ControlsClear(text) ELSE text
                    /\ UNCHANGED <<history, dialogs, opened>>
               ELSE /\ dialogs' =
                         [i \in DOMAIN dialogs |->
                             [InvalidateWeakPtrs(dialogs)[i]
                                 EXCEPT !.moved = TRUE]]
                    /\ history' = d.user
                    /\ text' = ControlsClear(text)
                    /\ opened' = NoneOpened
    /\ UNCHANGED <<choosingAttach, delayed, boxes, crashed>>

\* The user edits the input field of the compose controls.
TypeText(t) ==
    /\ ~crashed
    /\ text # t
    /\ text' = t
    /\ op' = [name |-> "typeText", fx |-> <<>>]
    /\ UNCHANGED <<data, choosingAttach, history, delayed, dialogs, boxes,
                   opened, crashed>>

\* sendRequests: ReplyArea::send.  err is the result of
\* GetErrorTextForSending for the current user and text.
Send(options, err) ==
    /\ ~crashed
    /\ IF data.user = NoUser
       THEN /\ err = ""
            /\ Crash([name |-> "send", user |-> NoUser, err |-> "",
                      fx |-> <<>>])
            /\ UNCHANGED text
       ELSE LET message == [action |-> PrepareSendAction(data, options),
                            textWithTags |-> text]
            IN  /\ op' = [name |-> "send", user |-> data.user,
                          err |-> err,
                          fx |-> SendBody(err, message)]
                /\ text' = ControlsClear(text)
                /\ UNCHANGED crashed
    /\ UNCHANGED <<data, choosingAttach, history, delayed, dialogs, boxes,
                   opened>>

\* sendVoiceRequests: ReplyArea::sendVoice
SendVoice(options) ==
    /\ ~crashed
    /\ IF data.user = NoUser
       THEN Crash([name |-> "sendVoice", user |-> NoUser, fx |-> <<>>])
       ELSE /\ op' = [name |-> "sendVoice", user |-> data.user,
                      fx |-> << Fx("sendVoiceMessage",
                                   [action |->
                                      PrepareSendAction(data, options)]),
                                Fx("clearListenState", "") >>
                             \o FinishSending]
            /\ UNCHANGED crashed
    /\ UNCHANGED <<data, choosingAttach, text, history, delayed, dialogs,
                   boxes, opened>>

\* attachRequests: the filter and the handler that schedules chooseAttach.
AttachRequest(override) ==
    /\ ~crashed
    /\ IF AttachFilter(choosingAttach)
       THEN /\ Len(delayed) < MaxDelayed
            /\ choosingAttach' = TRUE
            /\ delayed' = Append(delayed, override)
            /\ op' = [name |-> "attachRequest", accepted |-> TRUE,
                      fx |-> <<>>]
       ELSE /\ override = "nullopt"
            /\ op' = [name |-> "attachRequest", accepted |-> FALSE,
                      fx |-> <<>>]
            /\ UNCHANGED <<choosingAttach, delayed>>
    /\ UNCHANGED <<data, text, history, dialogs, boxes, opened, crashed>>

\* The delayed call fires: ReplyArea::chooseAttach.  err is the result of
\* Data::AnyFileRestrictionError for the current user.  The chosen override
\* selects the filter of the dialog and is copied into the prepared list,
\* where no handler of this file reads it.
ChooseAttach(err, follow) ==
    /\ ~crashed
    /\ delayed # <<>>
    /\ delayed' = Tail(delayed)
    /\ choosingAttach' = ChooseAttachFlag(data.user, err, choosingAttach)
    /\ IF data.user = NoUser
       THEN /\ err = ""
            /\ op' = [name |-> "chooseAttach", user |-> NoUser,
                      err |-> "", fx |-> <<>>]
            /\ UNCHANGED <<dialogs, opened>>
       ELSE IF err # ""
       THEN /\ op' = [name |-> "chooseAttach", user |-> data.user,
                      err |-> err, fx |-> << Fx("showToast", err) >>]
            /\ UNCHANGED <<dialogs, opened>>
       ELSE /\ Len(dialogs) < MaxDialogs
            /\ dialogs' = Append(dialogs, [valid |-> TRUE, moved |-> FALSE])
            /\ opened' = IF follow
                         THEN [what |-> "dialog", at |-> data.id]
                         ELSE opened
            /\ op' = [name |-> "chooseAttach", user |-> data.user,
                      err |-> "",
                      fx |-> << Fx("GetOpenPaths",
                                   IF Head(delayed) = "true"
                                   THEN "ImagesOrAllFilter"
                                   ELSE "AllOrImagesFilter") >>]
    /\ UNCHANGED <<data, text, history, boxes, crashed>>

\* File dialog i completes with a result: the callback of chooseAttach,
\* wrapped in crl::guard(&_shownUserGuard, callback).  listError is the error
\* of the list prepared from the paths, mediaEdit and restr the results of
\* confirmMediaEdit and FileRestrictionError.
DialogDone(i, result, listError, mediaEdit, restr, follow) ==
    /\ ~crashed
    /\ i \in DOMAIN dialogs
    /\ result # "paths" => listError = "None"
    /\ (result \notin {"paths", "remoteImage"} \/ ~dialogs[i].valid
        \/ data.user = NoUser)
           => (~mediaEdit /\ restr = "")
    /\ mediaEdit => restr = ""
    /\ dialogs' = RemoveAt(dialogs, i)
    /\ LET dlg == dialogs[i]
           done(fx, sfe) == [name |-> "dialogDone", user |-> data.user,
                             moved |-> dlg.moved, result |-> result,
                             at |-> OpenedAt("dialog", dialogs, i),
                             sfe |-> sfe, fx |-> fx]
       IN  IF ~dlg.valid \/ result = "empty"
           THEN /\ op' = done(<<>>, [called |-> FALSE])
                /\ opened' = OpenedAfter("dialog", dialogs, i)
                /\ UNCHANGED <<boxes, crashed>>
           ELSE IF data.user = NoUser
           THEN /\ Crash(done(<<>>, [called |-> FALSE]))
                /\ opened' = OpenedAfter("dialog", dialogs, i)
                /\ UNCHANGED boxes
           ELSE IF result = "remoteOther"
           THEN /\ op' = done(UploadFile(data, "File"), [called |-> FALSE])
                /\ opened' = OpenedAfter("dialog", dialogs, i)
                /\ UNCHANGED <<boxes, crashed>>
           ELSE LET list == [error |-> listError]
                    c == ConfirmSendingFiles(list, mediaEdit, restr)
                IN  /\ c.box => Len(boxes) < MaxBoxes
                    /\ op' = done(c.fx, c.sfe)
                    /\ boxes' = IF c.box
                                THEN Append(boxes, [list |-> list])
                                ELSE boxes
                    /\ opened' = IF c.box /\ follow
                                 THEN [what |-> "box", at |-> data.id]
                                 ELSE OpenedAfter("dialog", dialogs, i)
                    /\ UNCHANGED crashed
    /\ UNCHANGED <<data, choosingAttach, text, history, delayed>>

\* Box i is confirmed: the confirmed callback, wrapped in
\* crl::guard(this, confirmed), runs ReplyArea::sendingFilesConfirmed.
BoxConfirmed(i, photos, caption, options, groups, restr) ==
    /\ ~crashed
    /\ i \in DOMAIN boxes
    /\ boxes' = RemoveAt(boxes, i)
    /\ opened' = OpenedAfter("box", boxes, i)
    /\ IF data.user = NoUser
       THEN /\ restr = "" /\ groups = <<>> /\ caption = ""
            /\ Crash([name |-> "sendingFilesConfirmed", user |-> NoUser,
                      at |-> OpenedAt("box", boxes, i),
                      caption |-> caption, groups |-> groups,
                      sfe |-> [called |-> FALSE], fx |-> <<>>])
       ELSE LET list == boxes[i].list
                e == ShowSendingFilesError(restr, list.error)
                sfe == [called |-> TRUE, restr |-> restr,
                        listError |-> list.error, ret |-> e.ret]
            IN  /\ e.ret => (groups = <<>> /\ caption = "")
                /\ op' = [name |-> "sendingFilesConfirmed",
                          user |-> data.user,
                          at |-> OpenedAt("box", boxes, i),
                          caption |-> caption, groups |-> groups,
                          sfe |-> sfe,
                          fx |-> IF e.ret THEN e.fx
                                 ELSE SendingFilesConfirmedBody(
                                          data, groups, photos, caption,
                                          options)]
                /\ UNCHANGED crashed
    /\ UNCHANGED <<data, choosingAttach, text, history, delayed, dialogs>>

\* Box i is closed without sending.
BoxCancelled(i) ==
    /\ ~crashed
    /\ i \in DOMAIN boxes
    /\ boxes' = RemoveAt(boxes, i)
    /\ opened' = OpenedAfter("box", boxes, i)
    /\ op' = [name |-> "boxCancelled", fx |-> <<>>]
    /\ UNCHANGED <<data, choosingAttach, text, history, delayed, dialogs,
                   crashed>>

\* fileChosen, photoChosen, inlineResultChosen: the sends are commented out.
Chosen(what) ==
    /\ ~crashed
    /\ op' = [name |-> what, user |-> data.user,
              fx |-> IF what = "fileChosen"
                     THEN << Fx("hideLayer", "") >> ELSE <<>>]
    /\ UNCHANGED <<data, choosingAttach, text, history, delayed, dialogs,
                   boxes, opened, crashed>>

\* The mime-data hook of the input field: hasMedia tells whether the data
\* carries an image or file urls.
MimeDataHook(action, hasMedia) ==
    /\ ~crashed
    /\ op' = [name |-> "mimeData", user |-> data.user, action |-> action,
              hasMedia |-> hasMedia, ret |-> FALSE, fx |-> <<>>]
    /\ UNCHANGED <<data, choosingAttach, text, history, delayed, dialogs,
                   boxes, opened, crashed>>

GroupLists ==
    UNION {[1 .. n -> Groups] : n \in 0 .. MaxGroups}

Next ==
    \/ \E d \in ReplyAreaData : Show(d)
    \/ \E t \in Texts : TypeText(t)
    \/ \E o \in SendOptions, e \in ErrorTexts : Send(o, e)
    \/ \E o \in SendOptions : SendVoice(o)
    \/ \E o \in Overrides : AttachRequest(o)
    \/ \E e \in ErrorTexts : ChooseAttach(e, FALSE)
    \/ \E i \in Distinct(dialogs), r \in OpenResults, l \in ListErrors,
          m \in BOOLEAN, e \in ErrorTexts :
              DialogDone(i, r, l, m, e, FALSE)
    \/ \E i \in Distinct(boxes), p \in SendFilesWays, c \in Texts,
          o \in SendOptions, g \in GroupLists, e \in ErrorTexts :
              BoxConfirmed(i, p, c, o, g, e)
    \/ \E i \in Distinct(boxes) : BoxCancelled(i)
    \/ \E w \in {"fileChosen", "photoChosen", "inlineResultChosen"} :
          Chosen(w)
    \/ \E a \in MimeActions, h \in BOOLEAN : MimeDataHook(a, h)

Spec == Init /\ [][Next]_vars

\* The same handlers, with the history variable opened kept up to date.
NextOpened ==
    \/ \E d \in ReplyAreaData : Show(d)
    \/ \E t \in Texts : TypeText(t)
    \/ \E o \in SendOptions, e \in ErrorTexts : Send(o, e)
    \/ \E o \in SendOptions : SendVoice(o)
    \/ \E o \in Overrides : AttachRequest(o)
    \/ \E e \in ErrorTexts : ChooseAttach(e, TRUE)
    \/ \E i \in Distinct(dialogs) \cup {Len(dialogs)}, r \in OpenResults,
          l \in ListErrors, m \in BOOLEAN, e \in ErrorTexts :
              DialogDone(i, r, l, m, e, TRUE)
    \/ \E i \in Distinct(boxes) \cup {Len(boxes)}, p \in SendFilesWays,
          c \in Texts, o \in SendOptions, g \in GroupLists,
          e \in ErrorTexts : BoxConfirmed(i, p, c, o, g, e)
    \/ \E i \in Distinct(boxes) \cup {Len(boxes)} : BoxCancelled(i)
    \/ \E w \in {"fileChosen", "photoChosen", "inlineResultChosen"} :
          Chosen(w)
    \/ \E a \in MimeActions, h \in BOOLEAN : MimeDataHook(a, h)

SpecOpened == Init /\ [][NextOpened]_vars

----------------------------------------------------------------------------
\* Properties.

\* The calls that hand something to the session API.
SendCalls == {"sendMessage", "sendVoiceMessage", "sendFile", "sendFiles"}

\* The positions in the calls of the last handler of a call among cs.
CallsOf(cs) == {i \in DOMAIN op.fx : op.fx[i].call \in cs}

Shows(what, a) == \E i \in DOMAIN op.fx : op.fx[i] = Fx(what, a)

\* C1: when send() finds a non-empty error text for the current user and
\* text, the error is shown and the action is aborted: no sendMessage call is
\* made and the input widget is not cleared.
C1_SendAbortsOnError ==
    (op.name = "send" /\ ~crashed /\ op.err # "")
        => /\ Shows("showToast", op.err)
           /\ CallsOf({"sendMessage"}) = {}
           /\ CallsOf({"clear"}) = {}

\* C2 as stated: at most one file-chooser dialog opened by the component is
\* open in every reachable state.
C2_AtMostOneDialogOpen == Len(dialogs) <= 1

\* C2 as amended: at most one delayed chooseAttach call is pending, and
\* _choosingAttach is set while it is pending, so an attach request arriving
\* between an accepted request and the run of its chooseAttach schedules
\* nothing.
C2_AtMostOnePendingChooseAttach ==
    /\ Len(delayed) <= 1
    /\ delayed # <<>> => choosingAttach
    /\ (op.name = "attachRequest" /\ ~op.accepted) => choosingAttach

\* An attach request was filtered out while a chooseAttach call is pending.
C2_RequestFilteredWhilePending ==
    /\ op.name = "attachRequest"
    /\ ~op.accepted
    /\ Len(delayed) = 1

\* C3: the completion of a file dialog that was opened before show() changed
\* the user has no effect at all: no upload, no send, no box, no message.
C3_DialogOfFormerUserHasNoEffect ==
    (op.name = "dialogDone" /\ op.moved)
        => op.fx = <<>> /\ ~crashed

\* A dialog opened for a former user returned files while a user is shown.
C3_DialogOfFormerUserCompleted ==
    /\ op.name = "dialogDone"
    /\ op.moved
    /\ op.result # "empty"
    /\ data.user # NoUser
    /\ ~crashed

\* C4 as stated: after show(data) with data different from the stored pair,
\* the stored pair is data, the input is empty and the configured history is
\* that of data.user, for every old and new pair.
C4_ShowReplacesWholesale ==
    (op.name = "show" /\ op.old # op.arg)
        => /\ data = op.arg
           /\ text = ""
           /\ history = op.arg.user

\* C4 as amended: the same, except that the input is left as it is when
\* neither the old nor the new pair has a user.
C4_ShowReplacesUnlessNoUser ==
    (op.name = "show" /\ op.old # op.arg)
        => /\ data = op.arg
           /\ history = op.arg.user
           /\ (op.old.user # NoUser \/ op.arg.user # NoUser) => text = ""

\* show() moved to another story of the same user and cleared the input.
C4_StoryChangedForSameUser ==
    /\ op.name = "show"
    /\ op.old.user = op.arg.user
    /\ op.old.id # op.arg.id
    /\ op.arg.user # NoUser
    /\ Shows("clear", "")

\* C5: showSendingFilesError returns true exactly when the restriction check
\* or the list reports an error; it then shows exactly one message, the
\* restriction error first, the file-size-limit box for a too large file, a
\* toast otherwise, and the caller opens no box and sends nothing; it shows
\* nothing when it returns false.
C5_FileErrorsShownAndAbort ==
    (op.name \in {"dialogDone", "sendingFilesConfirmed"} /\ op.sfe.called)
        => LET r == op.sfe.restr
               e == op.sfe.listError
               bad == r # "" \/ e \in {"EmptyFile", "Directory",
                                       "NonLocalUrl", "TooLargeFile"}
           IN  /\ op.sfe.ret = bad
               /\ bad => op.fx =
                     IF r # "" THEN << Fx("showToast", r) >>
                     ELSE IF e = "TooLargeFile"
                     THEN << Fx("showBox", "FileSizeLimitBox") >>
                     ELSE << Fx("showToast", "lng_send_image_empty") >>
               /\ ~bad => /\ CallsOf({"showToast"}) = {}
                          /\ ~Shows("showBox", "FileSizeLimitBox")

\* A too large file was chosen for a restricted recipient.
C5_RestrictedAndTooLarge ==
    /\ op.name = "dialogDone"
    /\ op.sfe.called
    /\ op.sfe.restr # ""
    /\ op.sfe.listError = "TooLargeFile"
    /\ op.sfe.ret

\* The call at position i is followed by a reset of the input.
ResetAfter(i) ==
    \E j \in CallsOf({"clear", "clearListenState"}) : j > i

\* The call at position i is followed by finishSending.
FinishAfter(i) ==
    \E j \in CallsOf({"hidePanelsAnimated"}) :
        /\ j > i
        /\ j + 1 \in CallsOf({"setFocus"})

\* C6 as stated: every call that hands a send to the session API is
\* followed, within the same handler, by a reset of the input widget and by
\* finishSending.
C6_EverySendResetsAndFinishes ==
    \A i \in CallsOf(SendCalls) : ResetAfter(i) /\ FinishAfter(i)

\* C6 as amended: send and sendVoice reset the input (clear, clearListenState)
\* and call finishSending after the session call; sendingFilesConfirmed calls
\* finishSending after its session calls and does not reset the input;
\* uploadFile does neither.
C6_SendAdaptersFinish ==
    /\ (op.name \in {"send", "sendVoice"} /\ ~crashed)
           => /\ CallsOf(SendCalls) # {}
              /\ \A i \in CallsOf(SendCalls) : ResetAfter(i) /\ FinishAfter(i)
    /\ (op.name = "sendingFilesConfirmed" /\ ~crashed /\ ~op.sfe.ret)
           => /\ \A i \in CallsOf(SendCalls) : FinishAfter(i)
              /\ CallsOf({"hidePanelsAnimated"}) # {}
              /\ CallsOf({"clear", "clearListenState"}) = {}
    /\ (op.name = "dialogDone" /\ CallsOf({"sendFile"}) # {})
           => Len(op.fx) = 1

\* A file dialog returned remote content that was uploaded directly.
C6_FileUploaded ==
    /\ op.name = "dialogDone"
    /\ CallsOf({"sendFile"}) # {}

\* C7: with a user shown, each of send-text request, send-voice request,
\* file chosen, photo chosen and inline result chosen leads to a send call on
\* the session API for the history of the current user.
C7_UserActionsForwarded ==
    (/\ op.name \in {"send", "sendVoice", "fileChosen", "photoChosen",
                     "inlineResultChosen"}
     /\ op.user # NoUser)
        => \E i \in CallsOf(SendCalls) :
               op.fx[i].a.action.history = op.user

\* C8: the mime-data hook accepts data that carries an image or file urls:
\* it returns true for Check and for Insert, and Insert starts the
\* send-confirmation flow.
C8_MimeMediaAccepted ==
    (op.name = "mimeData" /\ op.hasMedia)
        => /\ op.ret
           /\ op.action = "Insert"
                  => CallsOf({"showBox", "showToast", "confirmMediaEdit"})
                         # {}

\* C9: when chooseAttach runs for a shown user who has a file restriction
\* error, the error is shown as a toast, no file dialog is opened and
\* _choosingAttach is false afterwards, so the next attach request passes
\* the filter.
C9_RestrictedAttachAborts ==
    (op.name = "chooseAttach" /\ op.user # NoUser /\ op.err # "")
        => /\ op.fx = << Fx("showToast", op.err) >>
           /\ CallsOf({"GetOpenPaths"}) = {}
           /\ ~choosingAttach
           /\ AttachFilter(choosingAttach)

\* chooseAttach ran for a restricted user.
C9_RestrictedAttach ==
    /\ op.name = "chooseAttach"
    /\ op.user # NoUser
    /\ op.err # ""

\* C10: the attach guard is always released: _choosingAttach is set only
\* while a delayed chooseAttach call is pending, so the run of that call
\* leaves it false.
C10_AttachGuardReleased ==
    choosingAttach => delayed # <<>>

\* C11: the precondition "a user is shown" of prepareSendAction and
\* session() holds at every call: none of the handlers that reach them runs
\* while _data.user is null, so no Expects(_data.user != nullptr) fails.
\* Stated for the confirmation of an open send-confirmation box, whose
\* callback is guarded by the lifetime of the ReplyArea only:
\* sendingFilesConfirmed never runs while no user is shown.
C11_UserShownWhenBoxConfirmed ==
    op.name = "sendingFilesConfirmed"
        => (op.user # NoUser /\ ~crashed)

\* C12: every message, voice note or file handed to the session API carries
\* a send action whose history is the history of the user stored at the
\* moment of the call and whose replyTo.storyId is (that user, the stored
\* story id).
C12_SendsCarryStoredPair ==
    \A i \in CallsOf(SendCalls) :
        /\ data.user # NoUser
        /\ op.fx[i].a.action.history = data.user
        /\ op.fx[i].a.action.replyTo = [peer |-> data.user,
                                        story |-> data.id]

\* Files were sent from a confirmed box while the second story of u2 is
\* shown.
C12_FilesSentForSecondStory ==
    /\ op.name = "sendingFilesConfirmed"
    /\ CallsOf({"sendFiles"}) # {}
    /\ data = [user |-> "u2", id |-> 1]

\* C13: files are sent as a reply to the story for which they were chosen:
\* whatever the completion of a file dialog or the confirmation of a box
\* sends carries replyTo.storyId = (U, S) of the pair that was shown when the
\* dialog or box was opened, also when show() has moved to another story of
\* U since.
C13_FilesReplyToStoryChosenFor ==
    (op.name \in {"dialogDone", "sendingFilesConfirmed"} /\ op.at # -1)
        => \A i \in CallsOf(SendCalls) :
               op.fx[i].a.action.replyTo = [peer |-> op.user,
                                            story |-> op.at]

\* C14: sendingFilesConfirmed with no file error delivers a non-empty
\* caption exactly once: as one separate text message before the sendFiles
\* calls, which then all get an empty caption, if there is not exactly one
\* group or the single group is not sent with a caption; otherwise with the
\* sendFiles call of the single group and without a text message.  At most
\* the first sendFiles call carries a caption, there is one sendFiles call
\* per group in group order, with an album exactly for the groups whose type
\* is not None, and every action has clearDraft = false.
C14_CaptionDeliveredOnce ==
    (op.name = "sendingFilesConfirmed" /\ op.sfe.called /\ ~op.sfe.ret)
        => LET n == Len(op.groups)
               separate == n # 1 \/ ~op.groups[1].sentWithCaption
               msgs == CallsOf({"sendMessage"})
               files == CallsOf({"sendFiles"})
               off == Cardinality(msgs)
           IN  /\ (op.caption # "" /\ separate)
                      => /\ msgs = {1}
                         /\ op.fx[1].a.textWithTags = op.caption
                         /\ \A i \in files : op.fx[i].a.caption = ""
               /\ (op.caption # "" /\ ~separate)
                      => /\ msgs = {}
                         /\ files = {1}
                         /\ op.fx[1].a.caption = op.caption
               /\ \A i \in files : i # off + 1 => op.fx[i].a.caption = ""
               /\ files = (off + 1) .. (off + n)
               /\ \A k \in 1 .. n :
                      op.fx[off + k].a.album = (op.groups[k].type # "None")
               /\ \A i \in CallsOf(SendCalls) :
                      ~op.fx[i].a.action.clearDraft

\* Two groups of different types were sent with a caption.
C14_CaptionAndTwoGroups ==
    /\ op.name = "sendingFilesConfirmed"
    /\ op.sfe.called /\ ~op.sfe.ret
    /\ op.caption # ""
    /\ Len(op.groups) = 2
    /\ op.groups[1].type # op.groups[2].type
    /\ Cardinality(CallsOf({"sendFiles"})) = 2

\* C15: show() changes only what the navigation requires: with data equal to
\* the stored pair it leaves everything unchanged; with another story of the
\* same user it leaves the configured history and the shown-user guard
\* unchanged, so pending file-chooser callbacks stay valid; the guard is
\* invalidated and the history re-set exactly when the user changes.
C15_ShowChangesOnlyNavigation ==
    [][op'.name = "show"
          => LET userChanged == op'.arg.user # data.user
                 guardHit == CallsOf({"invalidate_weak_ptrs"})' # {}
                 histSet == CallsOf({"setHistory"})' # {}
             IN  /\ op'.old = data
                 /\ op'.arg = data
                        => /\ op'.fx = <<>>
                           /\ UNCHANGED <<data, choosingAttach, text,
                                          history, delayed, dialogs, boxes>>
                 /\ ~userChanged
                        => /\ ~guardHit /\ ~histSet
                           /\ UNCHANGED <<history, dialogs>>
                 /\ userChanged
                        => /\ guardHit /\ histSet
                           /\ history' = op'.arg.user
                           /\ Len(dialogs') = Len(dialogs)
                           /\ \A i \in DOMAIN dialogs' : ~dialogs'[i].valid
   ]_vars

\* show() moved to another story of the same user while the callback of an
\* open file dialog is valid.
C15_StoryChangedWhileDialogOpen ==
    /\ op.name = "show"
    /\ op.arg.user = op.old.user
    /\ op.arg.user # NoUser
    /\ op.arg.id # op.old.id
    /\ \E i \in DOMAIN dialogs : dialogs[i].valid

====
